---- MODULE Spec2Model ----
(***************************************************************************)
(* A model of src/languagebind/__init__.py: the LanguageBind composite     *)
(* module (construction from a clip_type dictionary and its forward pass)  *)
(* and the LanguageBindVideoTower adapter (construction, load_model,       *)
(* forward, and the dtype/device/config/hidden_size properties).           *)
(*                                                                         *)
(* Python dictionaries are functions whose DOMAIN is the key set; an       *)
(* insertion-ordered dictionary given by the caller (clip_type) is a       *)
(* sequence of <<key, value>> pairs with distinct keys.  Pretrained        *)
(* networks are external: a loaded model is a record naming its class and  *)
(* checkpoint, its sub-modules are records naming the model they belong    *)
(* to, and what a network computes on an input is chosen by the            *)
(* environment.  Real numbers are exact rationals num/den.                 *)
(***************************************************************************)
EXTENDS Integers, Sequences, FiniteSets, TLC

VARIABLES
    lb,                \* "none" | "ready" | "failed": the LanguageBind object
    lb_err,            \* the exception the last LanguageBind call raised, or "none"
    lb_call,           \* "forward" while the caller holds the result of a forward call
    clip_type,         \* the clip_type argument __init__ was called with
    use_temp,          \* self.use_temp
    modality_encoder,  \* self.modality_encoder
    modality_proj,     \* self.modality_proj
    modality_scale,    \* self.modality_scale
    modality_config,   \* self.modality_config
    inputs,            \* the inputs argument of the last forward call
    projected,         \* per key, the value after line 80 of the last forward call
    outputs,           \* what the last forward call returned (NoValue if it raised)
    tw,                \* "none" | "ready" | "failed": the LanguageBindVideoTower object
    tw_err,            \* the exception the last tower call raised, or "none"
    tw_call,           \* the tower call whose result the caller holds, or "idle"
    tw_loads,          \* how many load_model calls have completed
    is_loaded,         \* self.is_loaded
    video_tower_name,  \* self.video_tower_name
    select_layer,      \* self.select_layer
    select_feature,    \* self.select_feature
    cfg_only,          \* self.cfg_only (NoValue while the attribute is not set)
    video_processor,   \* self.video_processor (NoValue while not set)
    video_tower,       \* self.video_tower (NoValue while not set)
    videos,            \* the videos argument of the last forward call
    encoder_calls,     \* the calls of self.video_tower the last forward call made
    tw_result          \* what the last forward call or property read returned

lbVars == <<lb, lb_err, lb_call, clip_type, use_temp, modality_encoder, modality_proj,
            modality_scale, modality_config, inputs, projected, outputs>>

twVars == <<tw, tw_err, tw_call, tw_loads, is_loaded, video_tower_name, select_layer,
            select_feature, cfg_only, video_processor, video_tower, videos,
            encoder_calls, tw_result>>

vars == <<lbVars, twVars>>

----------------------------------------------------------------------------
(* Bounds *)

\* largest absolute value of a component of a projected embedding
MaxC == 4

\* largest number of entries of clip_type
MaxMods == 2

\* largest number of videos in the list given to the tower's forward
MaxVideos == 2

\* largest batch size of a batched tensor given to the tower's forward
MaxBatch == 2

\* number of layers of the video encoder (it returns NumLayers + 1 hidden states)
NumLayers == 2

\* largest number of completed load_model calls
MaxLoads == 2

----------------------------------------------------------------------------
(* Values *)

\* None, or a name not bound
NoValue == [none |-> TRUE]

EmptyDict == <<>>

\* d[k] = x of a Python dictionary
DictSet(d, k, x) == [y \in (DOMAIN d) \cup {k} |-> IF y = k THEN x ELSE d[y]]

\* the registry: the keys of model_dict and the class each selects
ModelDictKeys == {"thermal", "image", "video", "depth", "audio"}

model_dict(k) ==
    CASE k = "thermal" -> "LanguageBindThermal"
      [] k = "image"   -> "LanguageBindImage"
      [] k = "video"   -> "LanguageBindVideo"
      [] k = "depth"   -> "LanguageBindDepth"
      [] k = "audio"   -> "LanguageBindAudio"

\* the checkpoints the model hub holds, with the logit_scale each stores
HubCkpts == {<<"LanguageBind", "A">>, <<"LanguageBind", "B">>}

HubLogitScale(ckpt) == IF ckpt[2] = "A" THEN 2 ELSE 0

\* f'LanguageBind/{v}'
PretrainedCkpt(v) == <<"LanguageBind", v>>

\* cls.from_pretrained(ckpt): the loaded model, or NoValue when the hub has
\* no such checkpoint (the loader raises)
FromPretrained(cls, ckpt) ==
    IF ckpt \in HubCkpts
    THEN [cls |-> cls, ckpt |-> ckpt]
    ELSE NoValue

\* model.<part>: a sub-module (or parameter, or config) of a loaded model
Part(model, name) == [part |-> name, of |-> model]

\* model.logit_scale: the parameter and the value it holds
LogitScale(model) == [part |-> "logit_scale", of |-> model,
                      value |-> HubLogitScale(model.ckpt)]

----------------------------------------------------------------------------
(* Tensors of the shared embedding space: vectors of two components, and   *)
(* exact rationals for what the normalisation and the scaling produce      *)

Components == (0 - MaxC)..MaxC

RECURSIVE SumSq(_)
SumSq(v) == IF v = <<>> THEN 0 ELSE Head(v) * Head(v) + SumSq(Tail(v))

IsSquare(n) == \E r \in 0..n : r * r = n

\* the projected embeddings drawn: those whose L2 norm is an integer
Vectors == {v \in Components \X Components : IsSquare(SumSq(v))}

Abs(x) == IF x < 0 THEN 0 - x ELSE x

\* a norm with p=1: the sum of the absolute values
NormL1(v) == Abs(v[1]) + Abs(v[2])

\* value.norm(p=2, dim=-1, keepdim=True)
Norm(v) == CHOOSE r \in 0..SumSq(v) : r * r = SumSq(v)

\* a tensor of rationals num[i]/den; 0/0 is NaN in every component
NaN == [num |-> <<>>, den |-> 0]

\* value / norm
Div(v, n) == IF n = 0 THEN NaN ELSE [num |-> v, den |-> n]

\* value * factor, factor a rational
Mul(t, f) ==
    IF t = NaN THEN NaN
    ELSE [num |-> [i \in DOMAIN t.num |-> t.num[i] * f.num], den |-> t.den * f.den]

\* parameter.exp(), to two decimals
Exp(s) ==
    CASE s = 0 - 1 -> [num |-> 37, den |-> 100]
      [] s = 0     -> [num |-> 1, den |-> 1]
      [] s = 1     -> [num |-> 272, den |-> 100]
      [] s = 2     -> [num |-> 739, den |-> 100]
      [] s = 3     -> [num |-> 2009, den |-> 100]

----------------------------------------------------------------------------
(* LanguageBind.__init__ *)

\* the state of the constructor: the four dictionaries, the loop's local
\* variable model (NoValue while unbound) and the exception raised
InitStart == [enc |-> EmptyDict, proj |-> EmptyDict, scale |-> EmptyDict,
              config |-> EmptyDict, model |-> NoValue, err |-> "none"]

\* the loop body keeping the first model bound instead of rebinding it
InitStepKeepFirst(st, k, v) ==
    IF k \notin ModelDictKeys
    THEN [st EXCEPT !.err = "KeyError"]
    ELSE LET model == FromPretrained(model_dict(k), PretrainedCkpt(v)) IN
         IF model = NoValue
         THEN [st EXCEPT !.err = "OSError"]
         ELSE [enc    |-> DictSet(st.enc, k, Part(model, "vision_model")),
               proj   |-> DictSet(st.proj, k, Part(model, "visual_projection")),
               scale  |-> DictSet(st.scale, k, LogitScale(model)),
               config |-> DictSet(st.config, k, Part(model, "config")),
               model  |-> IF st.model = NoValue THEN model ELSE st.model,
               err    |-> "none"]

\* the loop body storing the text projection as the modality's projection
InitStepTextProj(st, k, v) ==
    IF k \notin ModelDictKeys
    THEN [st EXCEPT !.err = "KeyError"]
    ELSE LET model == FromPretrained(model_dict(k), PretrainedCkpt(v)) IN
         IF model = NoValue
         THEN [st EXCEPT !.err = "OSError"]
         ELSE [enc    |-> DictSet(st.enc, k, Part(model, "vision_model")),
               proj   |-> DictSet(st.proj, k, Part(model, "text_projection")),
               scale  |-> DictSet(st.scale, k, LogitScale(model)),
               config |-> DictSet(st.config, k, Part(model, "config")),
               model  |-> model,
               err    |-> "none"]

\* one iteration of the loop of lines 62-69 on the item <<k, v>>
InitStep(st, k, v) ==
    IF k \notin ModelDictKeys
    THEN [st EXCEPT !.err = "KeyError"]
    ELSE LET model == FromPretrained(model_dict(k), PretrainedCkpt(v)) IN
         IF model = NoValue
         THEN [st EXCEPT !.err = "OSError"]
         ELSE [enc    |-> DictSet(st.enc, k, Part(model, "vision_model")),
               proj   |-> DictSet(st.proj, k, Part(model, "visual_projection")),
               scale  |-> DictSet(st.scale, k, LogitScale(model)),
               config |-> DictSet(st.config, k, Part(model, "config")),
               model  |-> model,
               err    |-> "none"]

\* the loop of lines 62-69 from item i on
RECURSIVE InitLoop(_, _, _)
InitLoop(items, i, st) ==
    IF i > Len(items) \/ st.err # "none" THEN st
    ELSE InitLoop(items, i + 1, InitStep(st, items[i][1], items[i][2]))

\* lines 70-71: the text tower of whatever model is bound after the loop
InitLanguage(st) ==
    IF st.err # "none" THEN st
    ELSE IF st.model = NoValue
    THEN [st EXCEPT !.err = "UnboundLocalError"]
    ELSE [st EXCEPT !.enc = DictSet(st.enc, "language", Part(st.model, "text_model")),
                    !.proj = DictSet(st.proj, "language", Part(st.model, "text_projection"))]

\* the caller's clip_type dictionaries: keys in insertion order, distinct
ClipKeys == {"image", "video", "language"}
CkptNames == {"A", "B", "absent"}

ClipTypes ==
    {ct \in UNION {[1..n -> ClipKeys \X CkptNames] : n \in 0..MaxMods} :
        \A i, j \in DOMAIN ct : i # j => ct[i][1] # ct[j][1]}

LBInit(ct, ut) ==
    /\ lb = "none"
    /\ LET st == InitLanguage(InitLoop(ct, 1, InitStart)) IN
       /\ lb' = IF st.err = "none" THEN "ready" ELSE "failed"
       /\ lb_err' = st.err
       /\ clip_type' = ct
       /\ use_temp' = ut
       /\ modality_encoder' = IF st.err = "none" THEN st.enc ELSE EmptyDict
       /\ modality_proj' = IF st.err = "none" THEN st.proj ELSE EmptyDict
       /\ modality_scale' = IF st.err = "none" THEN st.scale ELSE EmptyDict
       /\ modality_config' = IF st.err = "none" THEN st.config ELSE EmptyDict
    /\ UNCHANGED <<lb_call, inputs, projected, outputs, twVars>>

----------------------------------------------------------------------------
(* LanguageBind.forward *)

\* module(**value): the (last_hidden_state, pooled_output) pair of an encoder
EncoderCall(enc, value) ==
    <<[out |-> "last_hidden_state", enc |-> enc, arg |-> value],
      [out |-> "pooled_output", enc |-> enc, arg |-> value]>>

\* module(value) of a projection head
ProjCall(proj, value) == [proj |-> proj, arg |-> value]

\* line 81 on the projected embedding vec
Normalize(vec) == Div(vec, Norm(vec))

\* the scaling without the test of use_temp
ScaledIgnoringUseTemp(key, t) ==
    IF key # "language"
    THEN Mul(t, Exp(modality_scale[key].value))
    ELSE t

\* lines 82-84 on the normalised embedding t of key
Scaled(key, t) ==
    IF use_temp /\ key # "language"
    THEN Mul(t, Exp(modality_scale[key].value))
    ELSE t

\* the keys whose iteration raises KeyError: no encoder or projection under
\* it, or (when it is to be scaled) no scale
Raises(key) ==
    \/ key \notin DOMAIN modality_encoder
    \/ key \notin DOMAIN modality_proj
    \/ (use_temp /\ key # "language" /\ key \notin DOMAIN modality_scale)

\* the loop body running every input through the language encoder
ForwardKeyLanguageEncoder(key, value, vec) ==
    [src |-> ProjCall(modality_proj[key],
                      EncoderCall(modality_encoder["language"], value)[2]),
     val |-> Scaled(key, Normalize(vec))]

\* one iteration of the loop of lines 78-85: outputs[key]
ForwardKey(key, value, vec) ==
    [src |-> ProjCall(modality_proj[key], EncoderCall(modality_encoder[key], value)[2]),
     val |-> Scaled(key, Normalize(vec))]

InputKeys == {"image", "video", "language"}
InputValues == {"x1", "x2"}

InputDicts ==
    UNION {[S -> InputValues] : S \in {T \in SUBSET InputKeys : Cardinality(T) <= 2}}

\* net[key]: what the encoder and projection of key compute on inputs[key]
LBForward(inp, net) ==
    /\ lb = "ready"
    /\ lb_call = "idle"
    /\ lb_call' = "forward"
    /\ inputs' = inp
    /\ IF \E key \in DOMAIN inp : Raises(key)
       THEN /\ lb_err' = "KeyError"
            /\ projected' = EmptyDict
            /\ outputs' = NoValue
       ELSE /\ lb_err' = "none"
            /\ projected' = net
            /\ outputs' = [key \in DOMAIN inp |-> ForwardKey(key, inp[key], net[key])]
    /\ UNCHANGED <<lb, clip_type, use_temp, modality_encoder, modality_proj,
                   modality_scale, modality_config, twVars>>

\* the caller is done with what forward returned (or raised)
LBReturn ==
    /\ lb_call = "forward"
    /\ lb_call' = "idle"
    /\ lb_err' = "none"
    /\ inputs' = EmptyDict
    /\ projected' = EmptyDict
    /\ outputs' = NoValue
    /\ UNCHANGED <<lb, clip_type, use_temp, modality_encoder, modality_proj,
                   modality_scale, modality_config, twVars>>

----------------------------------------------------------------------------
(* Tensors given to and returned by the video tower: what they hold        *)
(* (data), their dtype and device, their leading (batch) dimensions and,   *)
(* for a hidden state, its tokens                                          *)

Dtypes == {"float32", "float16"}
Devices == {"cpu", "cuda"}

\* a single video, as the caller holds it
Videos == [data : {"v1", "v2"}, dtype : Dtypes, device : {"cpu"},
           shape : {<<>>}, tokens : {<<>>}]

\* a batch of b videos in one tensor
Batches == [data : {"v1"}, dtype : Dtypes, device : {"cpu"},
            shape : {<<b>> : b \in 1..MaxBatch}, tokens : {<<>>}]

\* x.to(device=device, dtype=dtype)
To(x, device, dtype) == [x EXCEPT !.device = device, !.dtype = dtype]

\* x.to(dtype)
ToDtype(x, dtype) == [x EXCEPT !.dtype = dtype]

\* x.unsqueeze(0)
Unsqueeze0(x) == [x EXCEPT !.shape = <<1>> \o x.shape]

\* the tokens of a hidden state: the class token, then the patches
Tokens == <<"cls", "patch1", "patch2">>

\* the hidden state of layer l (0 is the embedding output) of the encoder vt on x
Hidden(vt, x, l) ==
    [data |-> <<"hidden", l, vt.of.ckpt, x.data>>, dtype |-> x.dtype,
     device |-> x.device, shape |-> x.shape, tokens |-> Tokens]

\* vt(x, output_hidden_states=flag): the encoder's output object
VideoTowerCall(vt, x, flag) ==
    [last_hidden_state |-> Hidden(vt, x, NumLayers),
     hidden_states |-> IF flag THEN [i \in 1..(NumLayers + 1) |-> Hidden(vt, x, i - 1)]
                       ELSE NoValue]

\* seq[i] of a Python tuple or list: [ok, val]
PyIndex(seq, i) ==
    LET n == Len(seq) IN
    IF i >= 0 /\ i < n THEN [ok |-> TRUE, val |-> seq[i + 1]]
    ELSE IF i < 0 /\ i >= 0 - n THEN [ok |-> TRUE, val |-> seq[n + i + 1]]
    ELSE [ok |-> FALSE, val |-> NoValue]

----------------------------------------------------------------------------
(* LanguageBindVideoTower *)

\* the object's attributes, as the methods read them
Self == [is_loaded |-> is_loaded, video_tower_name |-> video_tower_name,
         select_layer |-> select_layer, select_feature |-> select_feature,
         cfg_only |-> cfg_only, video_processor |-> video_processor,
         video_tower |-> video_tower]

\* the vision_model of a loaded model, with the dtype and device its
\* parameters are held in
VisionModel(model, dtype, device) ==
    [part |-> "vision_model", of |-> model, dtype |-> dtype, device |-> device,
     requires_grad |-> TRUE]

\* module.requires_grad_(False)
RequiresGradFalse(vt) == [vt EXCEPT !.requires_grad = FALSE]

\* load_model setting is_loaded before the checkpoint load
LoadModelFlagFirst(self, model, dtype, device) ==
    IF model = NoValue
    THEN [self |-> [self EXCEPT !.is_loaded = TRUE], err |-> "OSError"]
    ELSE [self |-> [self EXCEPT
                      !.video_processor = [cls |-> "LanguageBindVideoProcessor",
                                           config |-> Part(model, "config")],
                      !.video_tower = RequiresGradFalse(VisionModel(model, dtype, device)),
                      !.is_loaded = TRUE],
          err |-> "none"]

\* load_model on the object self: what the checkpoint load gives (NoValue if
\* it raises) decides; the attributes are assigned only after it
LoadModel(self, model, dtype, device) ==
    IF model = NoValue
    THEN [self |-> self, err |-> "OSError"]
    ELSE [self |-> [self EXCEPT
                      !.video_processor = [cls |-> "LanguageBindVideoProcessor",
                                           config |-> Part(model, "config")],
                      !.video_tower = RequiresGradFalse(VisionModel(model, dtype, device)),
                      !.is_loaded = TRUE],
          err |-> "none"]

\* feature_select with the selection by select_feature of lines 129-134
FeatureSelectPatch(self, video_forward_outs) ==
    IF video_forward_outs.hidden_states = NoValue
    THEN [err |-> "TypeError", val |-> NoValue]
    ELSE LET r == PyIndex(video_forward_outs.hidden_states, self.select_layer) IN
         IF ~r.ok THEN [err |-> "IndexError", val |-> NoValue]
         ELSE IF self.select_feature = "patch"
         THEN [err |-> "none", val |-> [r.val EXCEPT !.tokens = Tail(r.val.tokens)]]
         ELSE [err |-> "ValueError", val |-> NoValue]

\* feature_select: [err, val]
FeatureSelect(self, video_forward_outs) ==
    IF video_forward_outs.hidden_states = NoValue
    THEN [err |-> "TypeError", val |-> NoValue]
    ELSE LET r == PyIndex(video_forward_outs.hidden_states, self.select_layer) IN
         IF r.ok THEN [err |-> "none", val |-> r.val]
         ELSE [err |-> "IndexError", val |-> NoValue]

\* the dtype and device properties: [err, val]
PropDtype(self) ==
    IF self.video_tower = NoValue THEN [err |-> "AttributeError", val |-> NoValue]
    ELSE [err |-> "none", val |-> self.video_tower.dtype]

PropDevice(self) ==
    IF self.video_tower = NoValue THEN [err |-> "AttributeError", val |-> NoValue]
    ELSE [err |-> "none", val |-> self.video_tower.device]

\* the config property: [err, val]
PropConfig(self) ==
    IF self.is_loaded
    THEN IF self.video_tower = NoValue THEN [err |-> "AttributeError", val |-> NoValue]
         ELSE [err |-> "none", val |-> Part(self.video_tower, "config")]
    ELSE IF self.cfg_only = NoValue THEN [err |-> "AttributeError", val |-> NoValue]
         ELSE [err |-> "none", val |-> self.cfg_only]

\* hidden_size read from the loaded encoder's config, not the config property
PropHiddenSizeOfTower(self) ==
    IF self.video_tower = NoValue THEN [err |-> "AttributeError", val |-> NoValue]
    ELSE [err |-> "none",
          val |-> [attr |-> "hidden_size", of |-> Part(self.video_tower, "config")]]

\* the hidden_size property: [err, val]
PropHiddenSize(self) ==
    LET c == PropConfig(self) IN
    IF c.err # "none" THEN c
    ELSE [err |-> "none", val |-> [attr |-> "hidden_size", of |-> c.val]]

OutputHiddenStatesOff == FALSE

\* the encoder call flag of lines 142 and 148
OutputHiddenStates == TRUE

\* the list branch's argument without the batch dimension added
ListArgNoUnsqueeze(self, video) ==
    To(video, PropDevice(self).val, PropDtype(self).val)

\* the argument of the encoder call of the list branch, lines 141-142
ListArg(self, video) ==
    Unsqueeze0(To(video, PropDevice(self).val, PropDtype(self).val))

\* the argument of the encoder call of the tensor branch, lines 147-148
BatchArg(self, vs) == To(vs, PropDevice(self).val, PropDtype(self).val)

\* lines 141-145 on one video: [err, call, val]
ForwardOne(self, video) ==
    IF self.video_tower = NoValue
    THEN [err |-> "AttributeError", call |-> NoValue, val |-> NoValue]
    ELSE LET arg == ListArg(self, video)
             call == [module |-> self.video_tower, arg |-> arg,
                      output_hidden_states |-> OutputHiddenStates]
             sel == FeatureSelect(self, VideoTowerCall(self.video_tower, arg,
                                                       OutputHiddenStates))
         IN IF sel.err # "none"
            THEN [err |-> sel.err, call |-> call, val |-> NoValue]
            ELSE [err |-> "none", call |-> call, val |-> ToDtype(sel.val, video.dtype)]

\* the loop of lines 140-145 from video i on; acc = [err, calls, items]
RECURSIVE ForwardList(_, _, _, _)
ForwardList(self, items, i, acc) ==
    IF i > Len(items) \/ acc.err # "none" THEN acc
    ELSE LET one == ForwardOne(self, items[i]) IN
         ForwardList(self, items, i + 1,
             [err |-> one.err,
              calls |-> IF one.call = NoValue THEN acc.calls
                        ELSE Append(acc.calls, one.call),
              items |-> IF one.err = "none" THEN Append(acc.items, one.val)
                        ELSE acc.items])

\* forward: [err, calls, val]
Forward(self, vs) ==
    IF vs.kind = "list"
    THEN LET r == ForwardList(self, vs.items, 1,
                              [err |-> "none", calls |-> <<>>, items |-> <<>>]) IN
         [err |-> r.err, calls |-> r.calls,
          val |-> IF r.err = "none" THEN [kind |-> "list", items |-> r.items]
                  ELSE NoValue]
    ELSE IF vs.kind # "tensor" \/ self.video_tower = NoValue
    THEN [err |-> "AttributeError", calls |-> <<>>, val |-> NoValue]
    ELSE LET arg == BatchArg(self, vs.value)
             call == [module |-> self.video_tower, arg |-> arg,
                      output_hidden_states |-> OutputHiddenStates]
             sel == FeatureSelect(self, VideoTowerCall(self.video_tower, arg,
                                                       OutputHiddenStates))
         IN IF sel.err # "none"
            THEN [err |-> sel.err, calls |-> <<call>>, val |-> NoValue]
            ELSE [err |-> "none", calls |-> <<call>>,
                  val |-> [kind |-> "tensor",
                           value |-> ToDtype(sel.val, vs.value.dtype)]]

----------------------------------------------------------------------------
(* The tower's operations *)

\* the video_tower argument: a checkpoint name
TowerNames == {<<"LanguageBind", "A">>, <<"LanguageBind", "absent">>}

\* the values of args.mm_vision_select_layer: every index of the hidden
\* states, counted from either end, and one past each end
SelectLayers == (0 - NumLayers - 2)..(NumLayers + 1)

SelectFeatures == {"patch", "cls_patch", "unexpected"}

\* the args object, with and without the attribute mm_vision_select_feature
Args == [mm_vision_select_layer : SelectLayers]
        \cup [mm_vision_select_layer : SelectLayers,
              mm_vision_select_feature : SelectFeatures]

\* getattr(args, 'mm_vision_select_feature', 'patch')
GetSelectFeature(args) ==
    IF "mm_vision_select_feature" \in DOMAIN args
    THEN args.mm_vision_select_feature
    ELSE "patch"

\* cls.from_pretrained(name, cache_dir=...) when the hub can (online) or
\* cannot be reached
TowerFromPretrained(cls, name, online) ==
    IF online THEN FromPretrained(cls, name) ELSE NoValue

\* the arguments of forward: a list of videos, one batched tensor, or a
\* sequence that is not a list
ForwardArgs ==
    {[kind |-> "list", items |-> vs] :
        vs \in UNION {[1..n -> Videos] : n \in 0..MaxVideos}}
    \cup {[kind |-> "tensor", value |-> b] : b \in Batches}
    \cup {[kind |-> "tuple", items |-> <<>>]}

SetSelf(self) ==
    /\ is_loaded' = self.is_loaded
    /\ video_tower_name' = self.video_tower_name
    /\ select_layer' = self.select_layer
    /\ select_feature' = self.select_feature
    /\ cfg_only' = self.cfg_only
    /\ video_processor' = self.video_processor
    /\ video_tower' = self.video_tower

\* the object after lines 96-105
TowerStart(name, args) ==
    [is_loaded |-> FALSE, video_tower_name |-> name,
     select_layer |-> args.mm_vision_select_layer,
     select_feature |-> GetSelectFeature(args),
     cfg_only |-> NoValue, video_processor |-> NoValue, video_tower |-> NoValue]

\* __init__: [self, err, loads]
TowerConstruct(name, args, delay_load, online, dtype, device) ==
    LET self == TowerStart(name, args) IN
    IF ~delay_load
    THEN LET r == LoadModel(self, TowerFromPretrained("LanguageBindVideo", name, online),
                            dtype, device)
         IN [self |-> r.self, err |-> r.err, loads |-> IF r.err = "none" THEN 1 ELSE 0]
    ELSE LET cfg == TowerFromPretrained("LanguageBindVideoConfig", name, online) IN
         IF cfg = NoValue THEN [self |-> self, err |-> "OSError", loads |-> 0]
         ELSE [self |-> [self EXCEPT !.cfg_only = cfg], err |-> "none", loads |-> 0]

TowerInit(name, args, delay_load, online, dtype, device) ==
    /\ tw = "none"
    /\ LET r == TowerConstruct(name, args, delay_load, online, dtype, device) IN
       /\ tw' = IF r.err = "none" THEN "ready" ELSE "failed"
       /\ tw_err' = r.err
       /\ tw_loads' = r.loads
       /\ IF r.err = "none" THEN SetSelf(r.self)
          ELSE UNCHANGED <<is_loaded, video_tower_name, select_layer, select_feature,
                           cfg_only, video_processor, video_tower>>
    /\ UNCHANGED <<tw_call, videos, encoder_calls, tw_result, lbVars>>

TowerLoadModel(online, dtype, device) ==
    /\ tw = "ready"
    /\ tw_call = "idle"
    /\ tw_loads < MaxLoads
    /\ LET r == LoadModel(Self, TowerFromPretrained("LanguageBindVideo",
                                                    video_tower_name, online),
                          dtype, device)
       IN /\ SetSelf(r.self)
          /\ tw_err' = r.err
          /\ tw_loads' = IF r.err = "none" THEN tw_loads + 1 ELSE tw_loads
    /\ tw_call' = "load_model"
    /\ tw_result' = NoValue
    /\ UNCHANGED <<tw, videos, encoder_calls, lbVars>>

TowerForward(vs) ==
    /\ tw = "ready"
    /\ tw_call = "idle"
    /\ LET r == Forward(Self, vs) IN
       /\ tw_err' = r.err
       /\ encoder_calls' = r.calls
       /\ tw_result' = r.val
    /\ tw_call' = "forward"
    /\ videos' = vs
    /\ UNCHANGED <<tw, tw_loads, is_loaded, video_tower_name, select_layer,
                   select_feature, cfg_only, video_processor, video_tower, lbVars>>

\* a read of one of the properties
Property(self, name) ==
    CASE name = "dtype" -> PropDtype(self)
      [] name = "device" -> PropDevice(self)
      [] name = "config" -> PropConfig(self)
      [] name = "hidden_size" -> PropHiddenSize(self)

PropertyNames == {"dtype", "device", "config", "hidden_size"}

TowerRead(name) ==
    /\ tw = "ready"
    /\ tw_call = "idle"
    /\ LET r == Property(Self, name) IN
       /\ tw_err' = r.err
       /\ tw_result' = IF r.err = "none" THEN [val |-> r.val] ELSE NoValue
    /\ tw_call' = name
    /\ UNCHANGED <<tw, tw_loads, is_loaded, video_tower_name, select_layer,
                   select_feature, cfg_only, video_processor, video_tower, videos,
                   encoder_calls, lbVars>>

\* the caller is done with what the call returned (or raised)
TowerReturn ==
    /\ tw_call # "idle"
    /\ tw_call' = "idle"
    /\ tw_err' = "none"
    /\ videos' = NoValue
    /\ encoder_calls' = <<>>
    /\ tw_result' = NoValue
    /\ UNCHANGED <<tw, tw_loads, is_loaded, video_tower_name, select_layer,
                   select_feature, cfg_only, video_processor, video_tower, lbVars>>

----------------------------------------------------------------------------

Init ==
    /\ tw = "none"
    /\ tw_err = "none"
    /\ tw_call = "idle"
    /\ tw_loads = 0
    /\ is_loaded = FALSE
    /\ video_tower_name = NoValue
    /\ select_layer = 0
    /\ select_feature = "patch"
    /\ cfg_only = NoValue
    /\ video_processor = NoValue
    /\ video_tower = NoValue
    /\ videos = NoValue
    /\ encoder_calls = <<>>
    /\ tw_result = NoValue
    /\ lb = "none"
    /\ lb_err = "none"
    /\ lb_call = "idle"
    /\ clip_type = <<>>
    /\ use_temp = TRUE
    /\ modality_encoder = EmptyDict
    /\ modality_proj = EmptyDict
    /\ modality_scale = EmptyDict
    /\ modality_config = EmptyDict
    /\ inputs = EmptyDict
    /\ projected = EmptyDict
    /\ outputs = NoValue

Next ==
    \/ /\ lb = "none"
       /\ \E ct \in ClipTypes, ut \in BOOLEAN : LBInit(ct, ut)
    \/ /\ lb = "ready" /\ lb_call = "idle"
       /\ \E inp \in InputDicts : \E net \in [DOMAIN inp -> Vectors] : LBForward(inp, net)
    \/ LBReturn

Spec == Init /\ [][Next]_vars

TowerNext ==
    \/ /\ tw = "none"
       /\ \E name \in TowerNames, args \in Args, delay_load \in BOOLEAN,
             online \in BOOLEAN, dtype \in Dtypes, device \in Devices :
             TowerInit(name, args, delay_load, online, dtype, device)
    \/ \E online \in BOOLEAN, dtype \in Dtypes, device \in Devices :
          TowerLoadModel(online, dtype, device)
    \/ /\ tw = "ready" /\ tw_call = "idle"
       /\ \E vs \in ForwardArgs : TowerForward(vs)
    \/ \E name \in PropertyNames : TowerRead(name)
    \/ TowerReturn

TowerSpec == Init /\ [][TowerNext]_vars

----------------------------------------------------------------------------
(* Properties of LanguageBind, checked under Spec *)

\* the last forward call returned (it did not raise)
Returned == lb_call = "forward" /\ lb_err = "none"

\* the model __init__ loads for the clip_type item <<k, v>>
ModelOf(item) == [cls |-> model_dict(item[1]), ckpt |-> <<"LanguageBind", item[2]>>]

ClipTypeKeys == {clip_type[i][1] : i \in DOMAIN clip_type}

RECURSIVE Gcd(_, _)
Gcd(a, b) == IF b = 0 THEN a ELSE Gcd(b, a % b)

\* the fraction a/b in lowest terms
Lowest(a, b) == <<a \div Gcd(a, b), b \div Gcd(a, b)>>

\* the L2 norm of the rational tensor t is the rational f: the squares agree
HasNorm(t, f) ==
    /\ t # NaN
    /\ Lowest(SumSq(t.num), t.den * t.den) = Lowest(f.num * f.num, f.den * f.den)

One == [num |-> 1, den |-> 1]

\* C1 as stated: every vector forward returns, for every key of the input,
\* has L2 norm 1.
C1_UnitNormEverywhere ==
    Returned => \A key \in DOMAIN outputs : HasNorm(outputs[key].val, One)

\* C1 as amended: a vector forward returns for a key whose projected
\* embedding is not the zero vector has L2 norm 1 when no temperature
\* scaling applies to the key (use_temp is false or the key is 'language'),
\* and L2 norm exp(modality_scale[key]) when it does.
C1_NormOfOutputs ==
    Returned =>
        \A key \in DOMAIN outputs :
            SumSq(projected[key]) # 0 =>
                IF use_temp /\ key # "language"
                THEN HasNorm(outputs[key].val, Exp(modality_scale[key].value))
                ELSE HasNorm(outputs[key].val, One)

C1_Witness ==
    /\ Returned
    /\ use_temp
    /\ DOMAIN outputs = {"image", "language"}
    /\ projected["image"] = <<3, 4>>
    /\ projected["language"] = <<0 - 4, 3>>
    /\ modality_scale["image"].value = 2

\* C2: forward scales a key's output exactly when use_temp is true and the
\* key is not 'language': such an output is the L2-normalised projected
\* embedding times exp(modality_scale[key]); the 'language' output, and
\* every output when use_temp is false, is the L2-normalised projected
\* embedding itself.
C2_ScalingExactlyWhen ==
    Returned =>
        \A key \in DOMAIN outputs :
            LET unit == Div(projected[key], Norm(projected[key])) IN
            outputs[key].val =
                IF use_temp /\ key # "language"
                THEN Mul(unit, Exp(modality_scale[key].value))
                ELSE unit

C2_Witness ==
    /\ Returned
    /\ ~use_temp
    /\ DOMAIN outputs = {"video", "language"}
    /\ projected["video"] = <<3, 0 - 4>>
    /\ modality_scale["video"].value = 2
    /\ outputs["video"].val = [num |-> <<3, 0 - 4>>, den |-> 5]

\* C3: after __init__ completes for a clip_type whose keys are all
\* registered, modality_scale and modality_config have exactly the keys of
\* clip_type, modality_encoder and modality_proj those keys plus 'language',
\* and the encoder, projection and scale stored under a key k all belong to
\* the one model loaded from checkpoint 'LanguageBind/' + clip_type[k].
C3_StoredByModality ==
    (lb = "ready" /\ ClipTypeKeys \subseteq ModelDictKeys) =>
        /\ DOMAIN modality_scale = ClipTypeKeys
        /\ DOMAIN modality_config = ClipTypeKeys
        /\ DOMAIN modality_encoder = ClipTypeKeys \cup {"language"}
        /\ DOMAIN modality_proj = ClipTypeKeys \cup {"language"}
        /\ \A i \in DOMAIN clip_type :
              LET k == clip_type[i][1]
                  m == ModelOf(clip_type[i])
              IN /\ modality_encoder[k] = [part |-> "vision_model", of |-> m]
                 /\ modality_proj[k] = [part |-> "visual_projection", of |-> m]
                 /\ modality_scale[k].part = "logit_scale"
                 /\ modality_scale[k].of = m

C3_Witness ==
    /\ lb = "ready"
    /\ clip_type = << <<"video", "B">>, <<"image", "A">> >>
    /\ modality_encoder["video"].of.ckpt = <<"LanguageBind", "B">>

\* C4: a forward call whose input keys were all loaded at construction (or
\* are 'language') returns a dictionary with exactly the keys of inputs,
\* outputs[key] being computed from inputs[key] through modality_encoder[key]
\* and modality_proj[key]; a call with a key that was not loaded raises and
\* returns nothing.
C4_OneOutputPerInput ==
    lb_call = "forward" =>
        IF DOMAIN inputs \subseteq ClipTypeKeys \cup {"language"}
        THEN /\ lb_err = "none"
             /\ DOMAIN outputs = DOMAIN inputs
             /\ \A key \in DOMAIN inputs :
                   outputs[key].src =
                       [proj |-> modality_proj[key],
                        arg |-> [out |-> "pooled_output",
                                 enc |-> modality_encoder[key],
                                 arg |-> inputs[key]]]
        ELSE /\ lb_err = "KeyError"
             /\ outputs = NoValue

C4_Witness ==
    /\ Returned
    /\ DOMAIN inputs = {"image", "language"}
    /\ inputs["image"] = "x1"
    /\ inputs["language"] = "x2"
    /\ outputs["image"].src.arg.arg = "x1"
    /\ outputs["language"].src.arg.arg = "x2"

\* C9: the 'language' encoder and projection are those of the model loaded
\* for the last item of clip_type, no text encoder of an earlier model is
\* kept, and construction with an empty clip_type fails.
C9_LanguageFromLast ==
    /\ lb = "ready" =>
          /\ Len(clip_type) > 0
          /\ LET m == ModelOf(clip_type[Len(clip_type)]) IN
             /\ modality_encoder["language"] = [part |-> "text_model", of |-> m]
             /\ modality_proj["language"] = [part |-> "text_projection", of |-> m]
          /\ \A k \in DOMAIN modality_encoder :
                modality_encoder[k].part = "text_model" => k = "language"
          /\ \A k \in DOMAIN modality_proj :
                modality_proj[k].part = "text_projection" => k = "language"
    /\ (lb # "none" /\ clip_type = <<>>) =>
          (lb = "failed" /\ lb_err = "UnboundLocalError")

C9_Witness ==
    /\ lb = "ready"
    /\ clip_type = << <<"video", "B">>, <<"image", "A">> >>
    /\ modality_encoder["language"].of = [cls |-> "LanguageBindImage",
                                          ckpt |-> <<"LanguageBind", "A">>]

\* construction with an empty clip_type has been tried
C9_EmptyTried == lb = "failed" /\ clip_type = <<>> /\ lb_err = "UnboundLocalError"

----------------------------------------------------------------------------
(* Properties of LanguageBindVideoTower, checked under TowerSpec *)

\* the last forward call of the tower returned
TowerReturned == tw_call = "forward" /\ tw_err = "none"

\* the features forward returned, as a sequence
Features == IF tw_result.kind = "list" THEN tw_result.items ELSE <<tw_result.value>>

\* the layer number select_layer names among NumLayers + 1 hidden states
LayerNo == IF select_layer >= 0 THEN select_layer ELSE NumLayers + 1 + select_layer

\* C5: forward on a loaded tower calls the encoder only with
\* output_hidden_states=True, and each feature it returns is the hidden
\* state at index select_layer of the encoder call made for it (cast to the
\* input's dtype), in the list branch and in the tensor branch.
C5_SelectedLayer ==
    (tw_call = "forward" /\ is_loaded) =>
        /\ \A i \in DOMAIN encoder_calls :
              /\ encoder_calls[i].output_hidden_states = TRUE
              /\ encoder_calls[i].module = video_tower
        /\ tw_err = "none" =>
              /\ Len(Features) = Len(encoder_calls)
              /\ \A i \in DOMAIN Features :
                    LET call == encoder_calls[i] IN
                    /\ Features[i].data =
                          <<"hidden", LayerNo, video_tower.of.ckpt, call.arg.data>>
                    /\ [Features[i] EXCEPT !.dtype = call.arg.dtype] =
                          VideoTowerCall(call.module, call.arg, TRUE).hidden_states[LayerNo + 1]

C5_Witness ==
    /\ TowerReturned
    /\ is_loaded
    /\ select_layer = 0 - 2
    /\ videos.kind = "list"
    /\ Len(videos.items) = 2
    /\ tw_result.items[2].data[2] = NumLayers - 1

\* the tensor branch of C5 has been taken with a positive index
C5_TensorTaken ==
    /\ TowerReturned
    /\ videos.kind = "tensor"
    /\ select_layer = 1
    /\ tw_result.value.data[2] = 1

\* C7: forward on a list of n videos returns a list of n features in the
\* same order, the i-th being the selected hidden state of the encoder run
\* on the i-th video alone with a batch dimension of size 1 added, cast to
\* the i-th video's dtype; forward on one batched tensor makes exactly one
\* encoder call and returns one tensor cast to the input tensor's dtype.
C7_ListOrTensor ==
    TowerReturned =>
        IF videos.kind = "list"
        THEN /\ tw_result.kind = "list"
             /\ Len(tw_result.items) = Len(videos.items)
             /\ Len(encoder_calls) = Len(videos.items)
             /\ \A i \in DOMAIN videos.items :
                   LET video == videos.items[i]
                       feature == tw_result.items[i]
                   IN /\ encoder_calls[i].arg.data = video.data
                      /\ encoder_calls[i].arg.shape = <<1>> \o video.shape
                      /\ feature.data = <<"hidden", LayerNo, video_tower.of.ckpt, video.data>>
                      /\ feature.shape = <<1>> \o video.shape
                      /\ feature.dtype = video.dtype
        ELSE /\ videos.kind = "tensor"
             /\ tw_result.kind = "tensor"
             /\ Len(encoder_calls) = 1
             /\ encoder_calls[1].arg.data = videos.value.data
             /\ encoder_calls[1].arg.shape = videos.value.shape
             /\ tw_result.value.shape = videos.value.shape
             /\ tw_result.value.dtype = videos.value.dtype

C7_Witness ==
    /\ TowerReturned
    /\ videos.kind = "list"
    /\ Len(videos.items) = 2
    /\ videos.items[1].data = "v2" /\ videos.items[1].dtype = "float32"
    /\ videos.items[2].data = "v1" /\ videos.items[2].dtype = "float16"
    /\ video_tower.dtype = "float16"
    /\ tw_result.items[1].dtype = "float32"
    /\ tw_result.items[1].data[4] = "v2"

\* the tensor branch of C7 has been taken with a dtype other than the tower's
C7_TensorTaken ==
    /\ TowerReturned
    /\ videos.kind = "tensor"
    /\ videos.value.shape = <<2>>
    /\ videos.value.dtype = "float32"
    /\ video_tower.dtype = "float16"
    /\ tw_result.value.dtype = "float32"

\* C10: what forward does is the same for every value of select_feature: a
\* tower differing only in select_feature raises the same or returns the
\* same features for the same input, the features have every token of the
\* selected hidden state (the class token included), and no value of
\* select_feature makes forward raise ValueError.
C10_SelectFeatureIgnored ==
    tw_call = "forward" =>
        /\ tw_err # "ValueError"
        /\ \A sf \in SelectFeatures :
              LET other == Forward([Self EXCEPT !.select_feature = sf], videos) IN
              /\ other.err = tw_err
              /\ tw_err = "none" => other.val = tw_result
        /\ tw_err = "none" =>
              \A i \in DOMAIN Features : Features[i].tokens = Tokens

C10_Witness ==
    /\ TowerReturned
    /\ select_feature = "unexpected"
    /\ videos.kind = "list"
    /\ Len(videos.items) = 1
    /\ Head(tw_result.items[1].tokens) = "cls"

\* the value the config property gives in the current state
ConfigNow == IF is_loaded THEN Part(video_tower, "config") ELSE cfg_only

\* C6 as stated: dtype, device and hidden_size are all read from the config
\* property, so a read of any of them succeeds whenever config is available.
C6_AllFromConfig ==
    (tw_call \in {"dtype", "device", "hidden_size"} /\ PropConfig(Self).err = "none") =>
        tw_err = "none"

\* C6 as amended: hidden_size is read from the config property and a read of
\* it succeeds whenever config is available, a tower constructed with
\* delay_load before load_model included; dtype and device are read from the
\* loaded encoder's parameter, not from config: a read succeeds exactly when
\* the tower is loaded and raises on a tower that is not.
C6_HiddenSizeFromConfig ==
    /\ tw_call = "hidden_size" =>
          /\ tw_err = "none"
          /\ tw_result = [val |-> [attr |-> "hidden_size", of |-> ConfigNow]]
    /\ tw_call = "dtype" =>
          /\ (tw_err = "none") = is_loaded
          /\ is_loaded => tw_result = [val |-> video_tower.dtype]
          /\ ~is_loaded => tw_err = "AttributeError"
    /\ tw_call = "device" =>
          /\ (tw_err = "none") = is_loaded
          /\ is_loaded => tw_result = [val |-> video_tower.device]
          /\ ~is_loaded => tw_err = "AttributeError"

C6_Witness ==
    /\ tw_call = "hidden_size"
    /\ ~is_loaded
    /\ tw_loads = 0
    /\ tw_err = "none"
    /\ tw_result.val.of = cfg_only

\* dtype has been read on a tower constructed with delay_load and not loaded
C6_DtypeRaised == tw_call = "dtype" /\ ~is_loaded /\ tw_err = "AttributeError"

\* a load_model call that raised has just been made
LoadRaised == tw_call = "idle" /\ tw_call' = "load_model" /\ tw_err' # "none"

\* C8: on a constructed tower is_loaded is true exactly when video_tower has
\* been set by a completed load_model, is_loaded or cfg_only is set so that
\* the config property does not fail, is_loaded never goes from true back to
\* false, and a load_model whose checkpoint load raises leaves is_loaded,
\* video_tower and video_processor as they were.
C8_LoadedLifecycle ==
    /\ [](tw = "ready" =>
            /\ is_loaded = (video_tower # NoValue)
            /\ is_loaded = (tw_loads > 0)
            /\ is_loaded \/ cfg_only # NoValue
            /\ PropConfig(Self).err = "none")
    /\ [][is_loaded => is_loaded']_vars
    /\ [][LoadRaised => UNCHANGED <<is_loaded, video_tower, video_processor>>]_vars

C8_Witness ==
    /\ tw = "ready"
    /\ tw_call = "load_model"
    /\ tw_err = "OSError"
    /\ is_loaded
    /\ tw_loads = 1
    /\ cfg_only # NoValue

\* load_model has raised on a tower constructed with delay_load, never loaded
C8_RaisedUnloaded ==
    tw = "ready" /\ tw_call = "load_model" /\ tw_err = "OSError" /\ ~is_loaded

====
